---- MODULE Spec2Model ----
(***************************************************************************)
(* Model of the forecast engine of src/ml_service.py                        *)
(* (class MLForecastingService): the indicator library, the feature        *)
(* builder, predict and the performance store.                             *)
(*                                                                         *)
(* Numbers.  Python floats are modelled in fixed point.  Every float is a   *)
(* record [k, v]: k is "fin" for a finite value, whose v is the value in    *)
(* millionths (1.0545 is 1054500), and "nan", "pinf", "ninf" for the IEEE   *)
(* special values, which arithmetic propagates as Python does.  Values     *)
(* that the code rounds to 3 decimals (confidence) are in thousandths.     *)
(* Integer features (news_count, calendar fields, volumes) are integers.   *)
(* Divisions round to the nearest unit, ties to even.                      *)
(*                                                                         *)
(* Time.  clock is the UTC wall clock in whole hours since 00:00 of a       *)
(* Monday that is the first day of a month; isoformat timestamps are       *)
(* modelled by that hour count.                                            *)
(*                                                                         *)
(* Randomness.  The module-level generator `random` is a deterministic     *)
(* function of its hidden state: a call draws that state (seed) and its    *)
(* k-th random.uniform(a, b) returns a, (a+b)/2 or b, by the k-th base-3    *)
(* digit of the seed.                                                      *)
(***************************************************************************)
EXTENDS Integers, Sequences, FiniteSets, TLC

VARIABLES
    clock,              \* datetime.utcnow(), in hours
    model_performance,  \* self.model_performance
    retrain_calls,      \* retrain_model calls made so far
    result,             \* the return value of a performance tracker call
    op,                 \* the operation called last
    args,               \* its arguments (and the clock at the call)
    locals,             \* the local variables of the call in progress
    outcome,            \* "none" | "running" | "returned" | "raised"
    error,              \* the exception raised, "none" when none
    predictions,        \* predict's return value
    features_out,       \* generate_features's return value
    indicator_out       \* an indicator function's return value

vars == <<clock, model_performance, retrain_calls, result, op, args, locals,
          outcome, error, predictions, features_out, indicator_out>>

----------------------------------------------------------------------------
(* Bounds of the model *)

\* base-3 digits of the random seed: draws beyond them reuse the digits
SeedDigits == 4
\* largest horizon predict is called with under Spec (every seed is drawn)
MaxSmallHorizon == 3
\* largest horizon predict is called with under SpecHorizon
MaxHorizonInput == 169
\* the clock stops advancing here
MaxClock == 1
\* longest history handed to the feature builder and the indicators
MaxHistory == 27
\* the last MaxTail rates of a generated history vary freely
MaxTail == 2
\* retrain_model is called at most MaxRetrains times in a behaviour
MaxRetrains == 5
\* the longest test series
MaxTest == 2

----------------------------------------------------------------------------
(* Fixed-point floats *)

\* one, in millionths
Unit == 1000 * 1000

Fin(n) == [k |-> "fin", v |-> n]
NaN == [k |-> "nan", v |-> 0]
PInf == [k |-> "pinf", v |-> 0]
NInf == [k |-> "ninf", v |-> 0]

IsFinite(a) == a.k = "fin"

Abs(n) == IF n < 0 THEN -n ELSE n
Max(a, b) == IF a >= b THEN a ELSE b
Min(a, b) == IF a <= b THEN a ELSE b

\* n / d for d > 0, rounded to the nearest integer, ties to even
RoundDiv(n, d) ==
    LET q == n \div d
        r == n % d
    IN  IF 2 * r < d THEN q
        ELSE IF 2 * r > d THEN q + 1
        ELSE IF q % 2 = 0 THEN q ELSE q + 1

FNeg(a) ==
    CASE a.k = "fin" -> Fin(-a.v)
      [] a.k = "pinf" -> NInf
      [] a.k = "ninf" -> PInf
      [] OTHER -> NaN

FAdd(a, b) ==
    IF a.k = "nan" \/ b.k = "nan" THEN NaN
    ELSE IF a.k = "fin" /\ b.k = "fin" THEN Fin(a.v + b.v)
    ELSE IF a.k = "fin" THEN b
    ELSE IF b.k = "fin" THEN a
    ELSE IF a.k = b.k THEN a
    ELSE NaN

FSub(a, b) == FAdd(a, FNeg(b))

\* a * num / den, den > 0
FScale(a, num, den) ==
    CASE a.k = "fin" -> Fin(RoundDiv(a.v * num, den))
      [] a.k = "nan" -> NaN
      [] OTHER -> IF num = 0 THEN NaN
                  ELSE IF num > 0 THEN a
                  ELSE FNeg(a)

\* position of a value on the extended real line, for comparisons
FRank(a) == CASE a.k = "ninf" -> 0 [] a.k = "fin" -> 1 [] OTHER -> 2

\* a < b, a <= b, a > b as Python compares floats: False when either is nan
FLt(a, b) ==
    /\ a.k # "nan"
    /\ b.k # "nan"
    /\ \/ FRank(a) < FRank(b)
       \/ a.k = "fin" /\ b.k = "fin" /\ a.v < b.v

FLe(a, b) ==
    /\ a.k # "nan"
    /\ b.k # "nan"
    /\ \/ FRank(a) < FRank(b)
       \/ a.k = "fin" /\ b.k = "fin" /\ a.v <= b.v
       \/ a.k # "fin" /\ a.k = b.k

FGt(a, b) == FLt(b, a)

\* round(x, 4): to a multiple of 100 millionths; inf and nan are returned as is
Round4(a) == IF a.k = "fin" THEN Fin(100 * RoundDiv(a.v, 100)) ELSE a

----------------------------------------------------------------------------
(* The random source *)

RECURSIVE Pow3(_)
Pow3(n) == IF n = 0 THEN 1 ELSE 3 * Pow3(n - 1)

Seeds == 0 .. (Pow3(SeedDigits) - 1)

\* the k-th draw (k = 0, 1, ...) of a call seeded s: 0, 1 or 2
Digit(s, k) == (s \div Pow3(k % SeedDigits)) % 3

\* random.uniform(lo, hi) at draw k, in the units of lo and hi
Uniform(s, k, lo, hi) ==
    CASE Digit(s, k) = 0 -> lo
      [] Digit(s, k) = 1 -> (lo + hi) \div 2
      [] OTHER -> hi

----------------------------------------------------------------------------
(* __init__ and _simulate_trained_models *)

feature_columns ==
    <<"rate_lag_1", "rate_lag_2", "rate_lag_3", "rate_lag_6", "rate_lag_12",
      "rate_ma_5", "rate_ma_10", "rate_ma_20",
      "volatility_5", "volatility_10",
      "rsi", "macd", "bollinger_position",
      "volume_ma_5", "volume_ma_10",
      "sentiment_score", "news_count",
      "hour_of_day", "day_of_week", "day_of_month">>

\* a membership test that lets an unregistered name through
PredictModelsMutant ==
    {"ensemble", "xgboost", "random_forest", "lstm", "nonexistent_model"}

\* the model names predict accepts
PredictModels == {"ensemble", "xgboost", "random_forest", "lstm"}

\* accuracy and directional_accuracy in thousandths, mse in millionths, mae in
\* ten-thousandths, last_trained in clock hours
InitialPerformanceMutant(now) ==
    [model_name \in {"random_forest", "xgboost"} |->
        [accuracy |-> 800, mse |-> 150, mae |-> 100, directional_accuracy |-> 700,
         last_trained |-> now - 6, training_samples |-> 50000, status |-> "active"]]

InitialPerformance(now) ==
    [ensemble |->
        [accuracy |-> 847, mse |-> 123, mae |-> 89, directional_accuracy |-> 723,
         last_trained |-> now - 6, training_samples |-> 50000, status |-> "active"],
     xgboost |->
        [accuracy |-> 821, mse |-> 156, mae |-> 102, directional_accuracy |-> 698,
         last_trained |-> now - 6, training_samples |-> 50000, status |-> "active"],
     random_forest |->
        [accuracy |-> 798, mse |-> 189, mae |-> 115, directional_accuracy |-> 675,
         last_trained |-> now - 6, training_samples |-> 50000, status |-> "active"],
     lstm |->
        [accuracy |-> 785, mse |-> 201, mae |-> 128, directional_accuracy |-> 662,
         last_trained |-> now - 8, training_samples |-> 50000, status |-> "active"]]

----------------------------------------------------------------------------
(* Calendar fields of a clock value *)

HourOf(t) == t % 24
WeekdayOf(t) == (t \div 24) % 7
DayOf(t) == ((t \div 24) % 28) + 1

----------------------------------------------------------------------------
(* predict and the prediction generators *)

\* features.get(key, default)
Get(features, key, default) ==
    IF key \in DOMAIN features THEN features[key] ELSE default

\* 1000 * sin(2 * pi * step / 24) and 1000 * sin(2 * pi * step / 12), rounded
SinDayTable ==
    <<0, 259, 500, 707, 866, 966, 1000, 966, 866, 707, 500, 259,
      0, -259, -500, -707, -866, -966, -1000, -966, -866, -707, -500, -259>>

SinHalfDayTable ==
    <<0, 500, 866, 1000, 866, 500, 0, -500, -866, -1000, -866, -500>>

SinDay(step) == SinDayTable[(step % 24) + 1]

SinHalfDay(step) == SinHalfDayTable[(step % 12) + 1]

\* random.uniform calls one loop iteration of predict makes for a model
DrawsPerStep(model_name) == IF model_name = "xgboost" THEN 3 ELSE 2

\* index of the first draw of iteration step
FirstDraw(model_name, step) == (step - 1) * DrawsPerStep(model_name)

_simulate_trend_prediction(current_rate, step, seed, k) ==
    LET time_factor == Fin(100 * step)
        seasonal_factor == Fin(SinDay(step))
        momentum_factor == Fin(Uniform(seed, k, -500, 500))
    IN  FAdd(FAdd(time_factor, seasonal_factor), momentum_factor)

_simulate_xgboost_prediction(current_rate, step, features, seed, k) ==
    LET sentiment_impact == FScale(Get(features, "sentiment_score", Fin(0)), 2, 1000)
        volatility_impact ==
            FScale(Get(features, "volatility_5", Fin(10000)),
                   Uniform(seed, k, -100, 100), 1000)
        time_decay == Fin(RoundDiv(100 * step * Uniform(seed, k + 1, 800, 1200), 1000))
    IN  FAdd(FAdd(sentiment_impact, volatility_impact), time_decay)

_simulate_rf_prediction(current_rate, step, features, seed, k) ==
    LET ma_trend ==
            FScale(FSub(Get(features, "rate_ma_5", current_rate),
                        Get(features, "rate_ma_20", current_rate)), 1, 10)
        rsi_impact == FScale(FSub(Get(features, "rsi", Fin(50 * Unit)), Fin(50 * Unit)), 1, 1000)
        time_factor == Fin(RoundDiv(100 * step * Uniform(seed, k, 900, 1100), 1000))
    IN  FAdd(FAdd(ma_trend, rsi_impact), time_factor)

_simulate_lstm_prediction(current_rate, step, features, seed, k) ==
    LET sequence_pattern == Fin(SinHalfDay(step))
        momentum ==
            FScale(FSub(Get(features, "rate_lag_1", current_rate),
                        Get(features, "rate_lag_3", current_rate)), 1, 2)
        noise == Fin(Uniform(seed, k, -1000, 1000))
    IN  FAdd(FAdd(sequence_pattern, momentum), noise)

\* the trend one iteration adds, by model; the last branch is the code's else
StepTrend(model_name, current_rate, i, features, seed) ==
    LET k == FirstDraw(model_name, i)
    IN  IF model_name = "ensemble"
            THEN _simulate_trend_prediction(current_rate, i, seed, k)
        ELSE IF model_name = "xgboost"
            THEN _simulate_xgboost_prediction(current_rate, i, features, seed, k)
        ELSE IF model_name = "random_forest"
            THEN _simulate_rf_prediction(current_rate, i, features, seed, k)
        ELSE _simulate_lstm_prediction(current_rate, i, features, seed, k)

\* every model with the noise of xgboost
StepNoiseMutant(model_name, i, seed) ==
    LET k == FirstDraw(model_name, i) + DrawsPerStep(model_name) - 1
    IN  Fin(Uniform(seed, k, -3000, 3000))

\* the noise one iteration adds: the iteration's last draw
StepNoise(model_name, i, seed) ==
    LET k == FirstDraw(model_name, i) + DrawsPerStep(model_name) - 1
    IN  IF model_name = "ensemble" THEN Fin(Uniform(seed, k, -2000, 2000))
        ELSE IF model_name = "xgboost" THEN Fin(Uniform(seed, k, -3000, 3000))
        ELSE IF model_name = "random_forest" THEN Fin(Uniform(seed, k, -4000, 4000))
        ELSE Fin(Uniform(seed, k, -5000, 5000))

\* every model with the factor of the ensemble
BaseConfidenceMutant(model_name) == 850

\* the factor in front of the decay, in thousandths
BaseConfidence(model_name) ==
    IF model_name = "ensemble" THEN 850
    ELSE IF model_name = "xgboost" THEN 800
    ELSE IF model_name = "random_forest" THEN 750
    ELSE 700

\* the decay with its sign flipped
ConfidenceNumMutant(model_name, i, horizon) ==
    BaseConfidence(model_name) * (10 * horizon + 3 * (i - 1))

\* confidence = base * (1 - (i - 1) / horizon * 0.3), as the fraction
\* ConfidenceNum / ConfidenceDen of a thousandth
ConfidenceNum(model_name, i, horizon) ==
    BaseConfidence(model_name) * (10 * horizon - 3 * (i - 1))

ConfidenceDen(horizon) == 10 * horizon

\* the rounding without the floor of 0.5
ReportedConfidenceMutant(num, den) == RoundDiv(num, den)

\* round(max(0.5, confidence), 3), in thousandths
ReportedConfidence(num, den) ==
    IF num < 500 * den THEN 500 ELSE RoundDiv(num, den)

\* uncertainty = 0.005 * (1 + i / horizon)
Uncertainty(i, horizon) == Fin(RoundDiv(5000 * (horizon + i), horizon))

LowerBound(predicted_rate, uncertainty) == FSub(predicted_rate, uncertainty)
UpperBound(predicted_rate, uncertainty) == FAdd(predicted_rate, uncertainty)

\* predicted_rate = current_rate + trend + noise
PredictedRate(model_name, features, seed, i, current_rate) ==
    FAdd(FAdd(current_rate, StepTrend(model_name, current_rate, i, features, seed)),
         StepNoise(model_name, i, seed))

\* the dictionary one iteration appends
PredictionStep(model_name, horizon, now, i, current_rate, predicted_rate) ==
    LET uncertainty == Uncertainty(i, horizon)
    IN  [timestamp |-> now + i,
         predicted |-> Round4(predicted_rate),
         confidence |-> ReportedConfidence(ConfidenceNum(model_name, i, horizon),
                                           ConfidenceDen(horizon)),
         lower_bound |-> Round4(LowerBound(predicted_rate, uncertainty)),
         upper_bound |-> Round4(UpperBound(predicted_rate, uncertainty)),
         trend |-> IF FGt(predicted_rate, current_rate) THEN "up" ELSE "down",
         volatility |-> Round4(uncertainty)]

\* range(1, horizon)
LastStepMutant(horizon) == horizon - 1

\* the last value of range(1, horizon + 1)
LastStep(horizon) == horizon

----------------------------------------------------------------------------
(* Sequences of numbers, as numpy computes over them *)

RECURSIVE SumBetween(_, _, _)
SumBetween(seq, lo, hi) ==
    IF lo > hi THEN 0
    ELSE IF lo = hi THEN seq[lo]
    ELSE LET mid == (lo + hi) \div 2
         IN  SumBetween(seq, lo, mid) + SumBetween(seq, mid + 1, hi)

Sum(seq) == SumBetween(seq, 1, Len(seq))

\* seq[-n:]
LastN(seq, n) ==
    IF Len(seq) <= n THEN seq ELSE SubSeq(seq, Len(seq) - n + 1, Len(seq))

\* seq[-n]
FromEnd(seq, n) == seq[Len(seq) - n + 1]

\* np.mean of a non-empty sequence
Mean(seq) == RoundDiv(Sum(seq), Len(seq))

\* the largest r with r * r <= n, searched between lo and hi
RECURSIVE SqrtBetween(_, _, _)
SqrtBetween(n, lo, hi) ==
    IF lo >= hi THEN lo
    ELSE LET mid == (lo + hi + 1) \div 2
         IN  IF mid * mid <= n THEN SqrtBetween(n, mid, hi)
             ELSE SqrtBetween(n, lo, mid - 1)

Sqrt(n) == SqrtBetween(n, 0, Min(n, 46340))

\* np.mean over rates.  The float sum of n decimal rates is rounded, so the
\* mean of n equal rates c need not be c: the result is the exact mean up to
\* one unit in the last place (rounding, in -1 .. 1), the same for every
\* evaluation over the same values.  A sum of zeros is exact.
MeanOfRates(seq, rounding) ==
    IF \A k \in 1 .. Len(seq) : seq[k] = 0 THEN 0 ELSE Mean(seq) + rounding

\* np.std over rates: the population standard deviation around np.mean
StdOfRates(seq, rounding) ==
    LET m == MeanOfRates(seq, rounding)
        squares == [k \in 1 .. Len(seq) |-> (seq[k] - m) * (seq[k] - m)]
    IN  Sqrt(Mean(squares))

\* np.diff
Diff(seq) == [k \in 1 .. (Len(seq) - 1) |-> seq[k + 1] - seq[k]]

----------------------------------------------------------------------------
(* The indicator functions; prices are finite rates in millionths *)

\* the default period of _calculate_rsi and of _calculate_bollinger_position
RsiPeriod == 14
BollingerPeriod == 20
\* the default spans of _calculate_macd
MacdFast == 12
MacdSlow == 26

\* a threshold one too low
RsiMinLengthMutant(period) == period

\* the length below which _calculate_rsi returns its neutral value
RsiMinLength(period) == period + 1

\* losses = np.where(deltas < 0, -deltas, 0)
Losses(deltas) == [k \in 1 .. Len(deltas) |-> IF deltas[k] < 0 THEN -deltas[k] ELSE 0]

\* gains = np.where(deltas > 0, deltas, 0)
Gains(deltas) == [k \in 1 .. Len(deltas) |-> IF deltas[k] > 0 THEN deltas[k] ELSE 0]

\* rsi = 100 - (100 / (1 + rs)), rs in thousandths, the result in millionths
RsiOf(avg_gain, avg_loss) ==
    LET rs == RoundDiv(avg_gain * 1000, avg_loss)
    IN  Fin(1000 * (100000 - RoundDiv(100000 * 1000, 1000 + rs)))

_calculate_rsi(prices, period) ==
    IF Len(prices) < RsiMinLength(period) THEN Fin(50 * Unit)
    ELSE LET deltas == Diff(prices)
             avg_gain == Mean(LastN(Gains(deltas), period))
             avg_loss == Mean(LastN(Losses(deltas), period))
         IN  IF avg_loss = 0 THEN Fin(100 * Unit)
             ELSE RsiOf(avg_gain, avg_loss)

\* the loop of _calculate_ema: emas are the values ema has taken, the first
\* of them prices[0], one more for every later price
RECURSIVE EmaLoop(_, _, _)
EmaLoop(prices, period, emas) ==
    IF Len(emas) = Len(prices) THEN emas[Len(emas)]
    ELSE LET price == prices[Len(emas) + 1]
             ema == emas[Len(emas)]
         IN  EmaLoop(prices, period,
                     Append(emas, RoundDiv(2 * price + (period - 1) * ema, period + 1)))

\* no threshold: the loop runs on every sequence
EmaMinLengthMutant(period) == 0

\* the length below which _calculate_ema returns the mean
EmaMinLength(period) == period

\* ema = prices[0] raises IndexError on an empty sequence
EmaRaises(prices, period) ==
    Len(prices) >= EmaMinLength(period) /\ Len(prices) = 0

\* np.mean(prices) of an empty sequence is nan
_calculate_ema(prices, period) ==
    IF Len(prices) < EmaMinLength(period)
    THEN IF Len(prices) = 0 THEN NaN ELSE Fin(Mean(prices))
    ELSE Fin(EmaLoop(prices, period, <<prices[1]>>))

\* _calculate_macd raises what one of its two _calculate_ema calls raises
MacdRaises(prices, fast, slow) ==
    Len(prices) >= slow /\ (EmaRaises(prices, fast) \/ EmaRaises(prices, slow))

_calculate_macd(prices, fast, slow) ==
    IF Len(prices) < slow THEN Fin(0)
    ELSE FSub(_calculate_ema(prices, fast), _calculate_ema(prices, slow))

\* max(0, min(1, position)), position in millionths
ClampPosition(position) == Max(0, Min(Unit, position))

_calculate_bollinger_position(prices, period, rounding) ==
    IF Len(prices) < period THEN Fin(500000)
    ELSE LET ma == MeanOfRates(LastN(prices, period), rounding)
             std == StdOfRates(LastN(prices, period), rounding)
             upper_band == ma + (2 * std)
             lower_band == ma - (2 * std)
             current_price == FromEnd(prices, 1)
         IN  IF upper_band = lower_band THEN Fin(500000)
             ELSE Fin(ClampPosition(
                      1000 * RoundDiv((current_price - lower_band) * 1000,
                                      upper_band - lower_band)))

----------------------------------------------------------------------------
(* _get_default_features *)

_get_default_features(now) ==
    [rate_lag_1 |-> Fin(1054500),
     rate_lag_2 |-> Fin(1054000),
     rate_lag_3 |-> Fin(1053500),
     rate_lag_6 |-> Fin(1053000),
     rate_lag_12 |-> Fin(1052500),
     rate_ma_5 |-> Fin(1054000),
     rate_ma_10 |-> Fin(1053500),
     rate_ma_20 |-> Fin(1053000),
     volatility_5 |-> Fin(10000),
     volatility_10 |-> Fin(12000),
     rsi |-> Fin(50 * Unit),
     macd |-> Fin(0),
     bollinger_position |-> Fin(500000),
     volume_ma_5 |-> 1000000,
     volume_ma_10 |-> 1000000,
     sentiment_score |-> Fin(0),
     news_count |-> 10,
     hour_of_day |-> HourOf(now),
     day_of_week |-> WeekdayOf(now),
     day_of_month |-> DayOf(now)]

----------------------------------------------------------------------------
(* generate_features *)

\* a threshold one too low
MinHistoryMutant == 20 - 1

\* the history length below which generate_features returns the defaults
MinHistory == 20

\* bool(sentiment_data): None and the empty dictionary are false
Truthy(data) == "none" \notin DOMAIN data /\ DOMAIN data # {}

\* the points of seq stamped lo .. hi in the order of their timestamps,
\* points of one timestamp in the order of seq
RECURSIVE SortedBetween(_, _, _)
SortedBetween(seq, lo, hi) ==
    IF lo = hi THEN SelectSeq(seq, LAMBDA p : p.timestamp = lo)
    ELSE LET mid == (lo + hi) \div 2
         IN  SortedBetween(seq, lo, mid) \o SortedBetween(seq, mid + 1, hi)

\* the frame is left in the order of the input
SortByTimestampMutant(seq) == seq

\* df.sort_values('timestamp')
SortByTimestamp(seq) ==
    IF Len(seq) = 0 THEN <<>>
    ELSE LET stamps == {seq[k].timestamp : k \in 1 .. Len(seq)}
             first == CHOOSE t \in stamps : \A u \in stamps : t <= u
             last == CHOOSE t \in stamps : \A u \in stamps : u <= t
         IN  SortedBetween(seq, first, last)

\* 'volume' in df.columns
HasVolume(df) == \E k \in 1 .. Len(df) : "volume" \in DOMAIN df[k]

\* the price-based features, the moving averages, the volatility features
\* and the technical indicators
PriceFeatures(rates, rounding) ==
    [rate_lag_1 |-> IF Len(rates) > 0 THEN Fin(FromEnd(rates, 1)) ELSE Fin(Unit),
     rate_lag_2 |-> IF Len(rates) > 1 THEN Fin(FromEnd(rates, 2)) ELSE Fin(Unit),
     rate_lag_3 |-> IF Len(rates) > 2 THEN Fin(FromEnd(rates, 3)) ELSE Fin(Unit),
     rate_lag_6 |-> IF Len(rates) > 5 THEN Fin(FromEnd(rates, 6)) ELSE Fin(Unit),
     rate_lag_12 |-> IF Len(rates) > 11 THEN Fin(FromEnd(rates, 12)) ELSE Fin(Unit),
     rate_ma_5 |-> IF Len(rates) >= 5 THEN Fin(MeanOfRates(LastN(rates, 5), rounding))
                   ELSE Fin(FromEnd(rates, 1)),
     rate_ma_10 |-> IF Len(rates) >= 10 THEN Fin(MeanOfRates(LastN(rates, 10), rounding))
                    ELSE Fin(FromEnd(rates, 1)),
     rate_ma_20 |-> IF Len(rates) >= 20 THEN Fin(MeanOfRates(LastN(rates, 20), rounding))
                    ELSE Fin(FromEnd(rates, 1)),
     volatility_5 |-> IF Len(rates) >= 5 THEN Fin(StdOfRates(LastN(rates, 5), rounding))
                      ELSE Fin(10000),
     volatility_10 |-> IF Len(rates) >= 10 THEN Fin(StdOfRates(LastN(rates, 10), rounding))
                       ELSE Fin(10000),
     rsi |-> _calculate_rsi(rates, RsiPeriod),
     macd |-> _calculate_macd(rates, MacdFast, MacdSlow),
     bollinger_position |-> _calculate_bollinger_position(rates, BollingerPeriod, rounding)]

\* the branch without a volume column sets volume_ma_5 only
VolumeFeaturesMutant(df) ==
    IF HasVolume(df)
    THEN LET volumes == [k \in 1 .. Len(df) |-> df[k].volume]
         IN  [volume_ma_5 |-> Mean(LastN(volumes, 5)),
              volume_ma_10 |-> Mean(LastN(volumes, 10))]
    ELSE [volume_ma_5 |-> 1000000]

\* the volume features; volumes are integers, whose float sums are exact
VolumeFeatures(df) ==
    IF HasVolume(df)
    THEN LET volumes == [k \in 1 .. Len(df) |-> df[k].volume]
         IN  [volume_ma_5 |-> IF Len(volumes) >= 5 THEN Mean(LastN(volumes, 5))
                              ELSE FromEnd(volumes, 1),
              volume_ma_10 |-> IF Len(volumes) >= 10 THEN Mean(LastN(volumes, 10))
                               ELSE FromEnd(volumes, 1)]
    ELSE [volume_ma_5 |-> 1000000, volume_ma_10 |-> 1000000]

\* the sentiment features
SentimentFeatures(sentiment_data) ==
    IF Truthy(sentiment_data)
    THEN [sentiment_score |-> Get(sentiment_data, "score", Fin(0)),
          news_count |-> Get(sentiment_data, "article_count", 10)]
    ELSE [sentiment_score |-> Fin(0), news_count |-> 10]

\* the time-based features
TimeFeatures(last_timestamp) ==
    [hour_of_day |-> HourOf(last_timestamp),
     day_of_week |-> WeekdayOf(last_timestamp),
     day_of_month |-> DayOf(last_timestamp)]

\* the features computed from a history of at least MinHistory points
ComputedFeatures(historical_data, sentiment_data, rounding) ==
    LET df == SortByTimestamp(historical_data)
        rates == [k \in 1 .. Len(df) |-> df[k].rate]
    IN  PriceFeatures(rates, rounding) @@ VolumeFeatures(df)
            @@ SentimentFeatures(sentiment_data) @@ TimeFeatures(df[Len(df)].timestamp)

\* generate_features(historical_data, sentiment_data) called at clock now
generate_features(historical_data, sentiment_data, now, rounding) ==
    IF Len(historical_data) = 0 \/ Len(historical_data) < MinHistory
    THEN _get_default_features(now)
    ELSE ComputedFeatures(historical_data, sentiment_data, rounding)

----------------------------------------------------------------------------
(* Inputs of the feature builder and of the indicators *)

\* quoted rates, in millionths
RateValues == {1054000, 1054500, 1055000}

\* the rates of the last points of a history
Tails == UNION {[1 .. m -> RateValues] : m \in 0 .. MaxTail}

\* n rates: base, then the rates of tail
HistoryRates(n, base, tail) ==
    [k \in 1 .. n |-> IF k <= n - Len(tail) THEN base ELSE tail[k - (n - Len(tail))]]

\* every rate sequence handed to the indicators
PriceInputs ==
    {HistoryRates(n, base, tail) :
        n \in 0 .. MaxHistory, base \in {1054500}, tail \in Tails}

\* the RatePoint k hours after the first, with or without a volume
RatePoint(k, rate, with_volume) ==
    IF with_volume
    THEN [timestamp |-> 30 + k, rate |-> rate, volume |-> 1000000 + 10000 * k]
    ELSE [timestamp |-> 30 + k, rate |-> rate]

Reverse(seq) == [k \in 1 .. Len(seq) |-> seq[Len(seq) + 1 - k]]

\* the series of rates, oldest first or newest first
HistoryOf(rates, with_volume, newest_first) ==
    LET series == [k \in 1 .. Len(rates) |-> RatePoint(k, rates[k], with_volume)]
    IN  IF newest_first THEN Reverse(series) ELSE series

HistoryInputs ==
    {HistoryOf(rates, with_volume, newest_first) :
        rates \in PriceInputs, with_volume \in BOOLEAN, newest_first \in BOOLEAN}

NoneValue == [none |-> TRUE]
EmptyDict == [x \in {} |-> 0]

SentimentInputs ==
    {NoneValue, EmptyDict,
     [score |-> Fin(500000), article_count |-> 25],
     [score |-> Fin(-300000)]}

\* the rounding of a float sum, in units in the last place
Roundings == {-1, 0, 1}

\* the periods the indicators are called with: the defaults and a short one
RsiPeriods == {RsiPeriod, 2}
BollingerPeriods == {BollingerPeriod, 3}
EmaPeriods == {MacdFast, MacdSlow, 3}
MacdSpans == {<<MacdFast, MacdSlow>>, <<2, 4>>}

----------------------------------------------------------------------------
(* Inputs of predict *)

\* a model name predict does not know
UnknownModels == {"nonexistent_model"}

ModelInputs == PredictModels \cup UnknownModels

\* a vector of a rising, positively reported market
RisingFeatures(now) ==
    [_get_default_features(now) EXCEPT
        !.rate_lag_1 = Fin(1060000), !.rate_lag_3 = Fin(1058000),
        !.rate_ma_5 = Fin(1059000), !.rate_ma_20 = Fin(1056000),
        !.volatility_5 = Fin(20000), !.rsi = Fin(70 * Unit),
        !.sentiment_score = Fin(500000)]

\* the feature vectors predict is called with: the default vector, a computed
\* one, vectors whose last rate is not finite, and a dictionary without
\* most keys
FeatureInputs(now) ==
    {_get_default_features(now),
     RisingFeatures(now),
     [_get_default_features(now) EXCEPT !.rate_lag_1 = NaN],
     [_get_default_features(now) EXCEPT !.rate_lag_1 = PInf],
     [sentiment_score |-> Fin(-1 * Unit)]}

----------------------------------------------------------------------------
(* Operations *)

NoFeatures == [none |-> TRUE]
NoArgs == [none |-> TRUE]
NoLocals == [none |-> TRUE]
NoResult == [none |-> TRUE]

Init ==
    /\ clock = 0
    /\ model_performance = InitialPerformance(0)
    /\ retrain_calls = 0
    /\ result = NoResult
    /\ op = "none"
    /\ args = NoArgs
    /\ locals = NoLocals
    /\ outcome = "none"
    /\ error = "none"
    /\ predictions = <<>>
    /\ features_out = NoFeatures
    /\ indicator_out = Fin(0)

\* no call is in progress: the caller has taken the last result
Idle == op = "none"

\* the call of op is executing
Running(name) == op = name /\ outcome = "running"

\* time passes between calls
Tick ==
    /\ Idle
    /\ clock < MaxClock
    /\ clock' = clock + 1
    /\ UNCHANGED <<model_performance, retrain_calls, result, op, args, locals, outcome, error,
                   predictions, features_out, indicator_out>>

\* predict(model_name, features, horizon) is called, the random source in
\* state seed: the model check, then the locals before the loop
PredictCall(model_name, features, horizon, seed) ==
    /\ Idle
    /\ op' = "predict"
    /\ args' = [model_name |-> model_name, features |-> features,
                horizon |-> horizon, seed |-> seed, at |-> clock]
    /\ IF model_name \notin PredictModels
       THEN /\ outcome' = "raised"
            /\ error' = "UnknownModel"
            /\ locals' = NoLocals
       ELSE /\ outcome' = "running"
            /\ error' = "none"
            /\ locals' = [i |-> 1,
                          current_rate |-> Get(features, "rate_lag_1", Fin(1054500))]
    /\ predictions' = <<>>
    /\ UNCHANGED <<clock, model_performance, retrain_calls, result, features_out,
                   indicator_out>>

\* the rate is never moved on
NextCurrentRateMutant(current_rate, predicted_rate) == current_rate

\* current_rate = predicted_rate
NextCurrentRate(current_rate, predicted_rate) == predicted_rate

\* one iteration of the loop of predict
PredictStep ==
    /\ Running("predict")
    /\ locals.i <= LastStep(args.horizon)
    /\ LET predicted_rate ==
               PredictedRate(args.model_name, args.features, args.seed,
                             locals.i, locals.current_rate)
       IN  /\ predictions' =
                  Append(predictions,
                         PredictionStep(args.model_name, args.horizon, clock,
                                        locals.i, locals.current_rate, predicted_rate))
           /\ locals' = [i |-> locals.i + 1,
                         current_rate |->
                             NextCurrentRate(locals.current_rate, predicted_rate)]
    /\ UNCHANGED <<clock, model_performance, retrain_calls, result, op, args,
                   outcome, error,
                   features_out, indicator_out>>

\* the loop is over: return predictions
PredictReturn ==
    /\ Running("predict")
    /\ locals.i > LastStep(args.horizon)
    /\ outcome' = "returned"
    /\ locals' = NoLocals
    /\ UNCHANGED <<clock, model_performance, retrain_calls, result, op, args, error,
                   predictions, features_out, indicator_out>>

\* predict over short horizons, every seed and every feature input
PredictShort ==
    /\ Idle
    /\ \E model_name \in ModelInputs, horizon \in 0 .. MaxSmallHorizon, seed \in Seeds :
        \E features \in FeatureInputs(clock) :
            PredictCall(model_name, features, horizon, seed)

\* predict over every horizon up to and beyond the ceiling, and a negative one
PredictLong ==
    /\ Idle
    /\ \E model_name \in ModelInputs, horizon \in -1 .. MaxHorizonInput :
        \E seed \in {0, Pow3(SeedDigits) - 1} :
            \E features \in {_get_default_features(clock)} :
                PredictCall(model_name, features, horizon, seed)

\* generate_features(historical_data, sentiment_data)
GenerateFeatures(historical_data, sentiment_data, rounding) ==
    /\ Idle
    /\ op' = "generate_features"
    /\ args' = [historical_data |-> historical_data,
                sentiment_data |-> sentiment_data, rounding |-> rounding,
                at |-> clock]
    /\ outcome' = "returned"
    /\ features_out' =
           generate_features(historical_data, sentiment_data, clock, rounding)
    /\ UNCHANGED <<clock, model_performance, retrain_calls, result, locals, error,
                   predictions,
                   indicator_out>>

BuildFeatures ==
    /\ Idle
    /\ \E historical_data \in HistoryInputs, sentiment_data \in SentimentInputs,
          rounding \in Roundings :
           GenerateFeatures(historical_data, sentiment_data, rounding)

\* _calculate_rsi(prices, period)
CalculateRsi ==
    /\ Idle
    /\ \E prices \in PriceInputs, period \in RsiPeriods :
           /\ op' = "rsi"
           /\ args' = [prices |-> prices, period |-> period]
           /\ outcome' = "returned"
           /\ indicator_out' = _calculate_rsi(prices, period)
    /\ UNCHANGED <<clock, model_performance, retrain_calls, result, locals, error,
                   predictions,
                   features_out>>

\* _calculate_bollinger_position(prices, period)
CalculateBollinger ==
    /\ Idle
    /\ \E prices \in PriceInputs, period \in BollingerPeriods,
          rounding \in Roundings :
           /\ op' = "bollinger_position"
           /\ args' = [prices |-> prices, period |-> period, rounding |-> rounding]
           /\ outcome' = "returned"
           /\ indicator_out' = _calculate_bollinger_position(prices, period, rounding)
    /\ UNCHANGED <<clock, model_performance, retrain_calls, result, locals, error,
                   predictions,
                   features_out>>

\* _calculate_ema(prices, period)
CalculateEma ==
    /\ Idle
    /\ \E prices \in PriceInputs, period \in EmaPeriods :
           /\ op' = "ema"
           /\ args' = [prices |-> prices, period |-> period]
           /\ IF EmaRaises(prices, period)
              THEN /\ outcome' = "raised"
                   /\ error' = "IndexError"
                   /\ indicator_out' = Fin(0)
              ELSE /\ outcome' = "returned"
                   /\ error' = "none"
                   /\ indicator_out' = _calculate_ema(prices, period)
    /\ UNCHANGED <<clock, model_performance, retrain_calls, result, locals,
                   predictions, features_out>>

\* _calculate_macd(prices, fast, slow)
CalculateMacd ==
    /\ Idle
    /\ \E prices \in PriceInputs, spans \in MacdSpans :
           /\ op' = "macd"
           /\ args' = [prices |-> prices, fast |-> spans[1], slow |-> spans[2]]
           /\ IF MacdRaises(prices, spans[1], spans[2])
              THEN /\ outcome' = "raised"
                   /\ error' = "IndexError"
                   /\ indicator_out' = Fin(0)
              ELSE /\ outcome' = "returned"
                   /\ error' = "none"
                   /\ indicator_out' = _calculate_macd(prices, spans[1], spans[2])
    /\ UNCHANGED <<clock, model_performance, retrain_calls, result, locals,
                   predictions, features_out>>

\* the caller takes the result of the last call
Return ==
    /\ outcome \in {"returned", "raised"}
    /\ op' = "none"
    /\ args' = NoArgs
    /\ outcome' = "none"
    /\ error' = "none"
    /\ predictions' = <<>>
    /\ features_out' = NoFeatures
    /\ indicator_out' = Fin(0)
    /\ result' = NoResult
    /\ UNCHANGED <<clock, model_performance, retrain_calls, locals>>

Next == PredictShort \/ PredictStep \/ PredictReturn \/ Tick \/ Return

Spec == Init /\ [][Next]_vars

NextHorizon == PredictLong \/ PredictStep \/ PredictReturn \/ Return

SpecHorizon == Init /\ [][NextHorizon]_vars

NextFeatures ==
    \/ BuildFeatures
    \/ CalculateRsi
    \/ CalculateBollinger
    \/ CalculateEma
    \/ CalculateMacd
    \/ Tick
    \/ Return

SpecFeatures == Init /\ [][NextFeatures]_vars

----------------------------------------------------------------------------
(* The performance tracker: retrain_model, evaluate_model,                  *)
(* get_model_performance                                                   *)

\* the keys of self.models: the models _initialize_models builds
RetrainModelsMutant == {"random_forest", "xgboost", "nonexistent_model"}
RetrainModels == {"random_forest", "xgboost"}

\* every record is stamped
SetLastTrainedMutant(store, model_name, now) ==
    [name \in DOMAIN store |-> [store[name] EXCEPT !.last_trained = now]]

\* self.model_performance[model_name]['last_trained'] = utcnow
SetLastTrained(store, model_name, now) ==
    [store EXCEPT ![model_name].last_trained = now]

\* len(training_data) if training_data else 50000
TrainingSamples(training_data) ==
    IF Len(training_data) > 0 THEN Len(training_data) ELSE 50000

\* self.model_performance[model_name]['training_samples'] = ...
SetTrainingSamples(store, model_name, training_data) ==
    [store EXCEPT ![model_name].training_samples = TrainingSamples(training_data)]

\* improvement = random.uniform(-0.02, 0.05), the first draw, in millionths;
\* a draw is a float with more digits than the three the store keeps: the
\* low and the high draw are taken a millionth inside the interval
Improvement(seed) == Uniform(seed, 0, -20000 + 1, 50000 - 1)

\* new_accuracy = max(0.7, min(0.95, current_accuracy + improvement)), in
\* millionths; current_accuracy is in thousandths
NewAccuracyMutant(current_accuracy, improvement) ==
    Max(700000, 1000 * current_accuracy + improvement)
NewAccuracy(current_accuracy, improvement) ==
    Max(700000, Min(950000, 1000 * current_accuracy + improvement))

\* self.model_performance[model_name]['accuracy'] = round(new_accuracy, 3)
SetAccuracy(store, model_name, new_accuracy) ==
    [store EXCEPT ![model_name].accuracy = RoundDiv(new_accuracy, 1000)]

\* random.uniform(300, 900), the second draw, in seconds
TrainingTime(seed) == Uniform(seed, 1, 300, 900)

\* the dictionary retrain_model returns
RetrainResult(model_name, training_data, new_accuracy, training_time) ==
    [status |-> "completed", model |-> model_name, new_accuracy |-> Fin(new_accuracy),
     training_samples |-> TrainingSamples(training_data),
     training_time |-> training_time]

\* the store after the statements of a retrain_model call running alone
Retrained(store, model_name, training_data, now, seed) ==
    LET stamped == SetLastTrained(store, model_name, now)
        counted == SetTrainingSamples(stamped, model_name, training_data)
        current_accuracy == counted[model_name].accuracy
    IN  SetAccuracy(counted, model_name,
                    NewAccuracy(current_accuracy, Improvement(seed)))

\* retrain_model(model_name, training_data), the random source in state seed
RetrainModel(model_name, training_data, seed) ==
    /\ Idle
    /\ retrain_calls < MaxRetrains
    /\ retrain_calls' = retrain_calls + 1
    /\ op' = "retrain_model"
    /\ args' = [model_name |-> model_name, training_data |-> training_data,
                seed |-> seed, at |-> clock, store |-> model_performance]
    /\ IF model_name \notin RetrainModels
       THEN /\ outcome' = "raised"
            /\ error' = "UnknownModel"
            /\ result' = NoResult
            /\ UNCHANGED model_performance
       ELSE IF model_name \notin DOMAIN model_performance
       THEN /\ outcome' = "raised"
            /\ error' = "KeyError"
            /\ result' = NoResult
            /\ UNCHANGED model_performance
       ELSE /\ outcome' = "returned"
            /\ error' = "none"
            /\ model_performance' =
                   Retrained(model_performance, model_name, training_data, clock, seed)
            /\ result' =
                   RetrainResult(model_name, training_data,
                                 NewAccuracy(model_performance[model_name].accuracy,
                                             Improvement(seed)),
                                 TrainingTime(seed))
    /\ UNCHANGED <<clock, locals, predictions, features_out, indicator_out>>

\* the generator state after draws more draws: its digits moved down
AdvanceSeed(seed, draws) ==
    LET d == draws % SeedDigits
    IN  (seed \div Pow3(d)) + (seed % Pow3(d)) * Pow3(SeedDigits - d)

\* the features carry the rate of the data point
EvaluationPredictionMutant(model_name, data_point, now, seed, j) ==
    LET features == [_get_default_features(now) EXCEPT
                        !.rate_lag_1 = Fin(Get(data_point, "rate", Unit))]
        drawn == AdvanceSeed(seed, (j - 1) * DrawsPerStep(model_name))
        current_rate == Get(features, "rate_lag_1", Fin(1054500))
        predicted_rate == PredictedRate(model_name, features, drawn, 1, current_rate)
    IN  PredictionStep(model_name, 1, now, 1, current_rate, predicted_rate).predicted.v

\* pred['predicted'] of the j-th data point: generate_features([data_point]),
\* then the one step of predict(model_name, features, horizon=1)
EvaluationPrediction(model_name, data_point, now, seed, j) ==
    LET features == generate_features(<<data_point>>, NoneValue, now, 0)
        drawn == AdvanceSeed(seed, (j - 1) * DrawsPerStep(model_name))
        current_rate == Get(features, "rate_lag_1", Fin(1054500))
        predicted_rate == PredictedRate(model_name, features, drawn, 1, current_rate)
    IN  PredictionStep(model_name, 1, now, 1, current_rate, predicted_rate).predicted.v

\* mean_squared_error if len(actuals) > 1 else 0.001, rounded to 6 decimals:
\* in millionths
MeanSquaredError(actuals, predicted) ==
    IF Len(actuals) > 1
    THEN RoundDiv(Sum([k \in 1 .. Len(actuals) |->
                          (actuals[k] - predicted[k]) * (actuals[k] - predicted[k])]),
                  Len(actuals) * Unit)
    ELSE 1000

\* mean_absolute_error if len(actuals) > 1 else 0.01, rounded to 4 decimals:
\* in ten-thousandths
MeanAbsoluteError(actuals, predicted) ==
    IF Len(actuals) > 1
    THEN RoundDiv(Sum([k \in 1 .. Len(actuals) |-> Abs(actuals[k] - predicted[k])]),
                  Len(actuals) * 100)
    ELSE 100

\* directional_correct / max(1, len(predictions) - 1), rounded to 3 decimals:
\* in thousandths
DirectionalAccuracy(actuals, predicted) ==
    LET directional_correct ==
            Cardinality({i \in 2 .. Len(predicted) :
                            (predicted[i] > predicted[i - 1])
                                = (actuals[i] > actuals[i - 1])})
    IN  RoundDiv(1000 * directional_correct, Max(1, Len(predicted) - 1))

\* the dictionary evaluate_model returns for a non-empty test_data
EvaluationResult(model_name, test_data, now, seed) ==
    LET predicted == [j \in 1 .. Len(test_data) |->
                         EvaluationPrediction(model_name, test_data[j], now, seed, j)]
        actuals == [j \in 1 .. Len(test_data) |-> Get(test_data[j], "rate", Unit)]
    IN  [mse |-> MeanSquaredError(actuals, predicted),
         mae |-> MeanAbsoluteError(actuals, predicted),
         directional_accuracy |-> DirectionalAccuracy(actuals, predicted),
         test_samples |-> Len(test_data)]

\* if not test_data: return self.model_performance.get(model_name, {})
EmptyEvaluationMutant(store, model_name) == EmptyDict
EmptyEvaluation(store, model_name) == Get(store, model_name, EmptyDict)

\* evaluate_model(model_name, test_data), the random source in state seed;
\* for a model predict does not know, the first predict call raises
EvaluateModel(model_name, test_data, seed) ==
    /\ Idle
    /\ op' = "evaluate_model"
    /\ args' = [model_name |-> model_name, test_data |-> test_data,
                seed |-> seed, at |-> clock, store |-> model_performance]
    /\ IF Len(test_data) = 0
       THEN /\ outcome' = "returned"
            /\ error' = "none"
            /\ result' = EmptyEvaluation(model_performance, model_name)
       ELSE IF model_name \notin PredictModels
       THEN /\ outcome' = "raised"
            /\ error' = "UnknownModel"
            /\ result' = NoResult
       ELSE /\ outcome' = "returned"
            /\ error' = "none"
            /\ result' = EvaluationResult(model_name, test_data, clock, seed)
    /\ UNCHANGED <<clock, model_performance, retrain_calls, locals, predictions,
                   features_out, indicator_out>>

\* get_model_performance()
GetModelPerformance ==
    /\ Idle
    /\ op' = "get_model_performance"
    /\ args' = [at |-> clock, store |-> model_performance]
    /\ outcome' = "returned"
    /\ error' = "none"
    /\ result' = model_performance
    /\ UNCHANGED <<clock, model_performance, retrain_calls, locals, predictions,
                   features_out, indicator_out>>

\* the training sets retrain_model is called with: none, and a short one
TrainingInputs ==
    {<<>>, <<RatePoint(1, 1054000, FALSE), RatePoint(2, 1055000, FALSE)>>}

\* the random source before a tracker call: every draw low, every draw high
StoreSeeds == {0, Pow3(SeedDigits) - 1}

\* the test series evaluate_model is called with: the first points, up to
\* MaxTest, of a series that goes up and down and of one that goes down and up
TestRate(k, first) == IF k % 2 = 1 THEN first ELSE 2109000 - first
TestSeries(n, first) == [k \in 1 .. n |-> RatePoint(k, TestRate(k, first), FALSE)]
TestInputs == {TestSeries(n, first) : n \in 0 .. MaxTest, first \in {1054000, 1055000}}

\* the random source before an evaluation: every draw low, and the third
\* and fourth draws high
EvaluateSeeds == {0, (Pow3(2) - 1) * Pow3(2)}

Retrain ==
    /\ Idle
    /\ \E model_name \in ModelInputs, training_data \in TrainingInputs,
          seed \in StoreSeeds :
           RetrainModel(model_name, training_data, seed)

Evaluate ==
    /\ Idle
    /\ \E model_name \in ModelInputs, test_data \in TestInputs :
        \E seed \in IF test_data = <<>> THEN {0} ELSE EvaluateSeeds :
            EvaluateModel(model_name, test_data, seed)

\* predict between tracker calls
PredictStored ==
    /\ Idle
    /\ \E model_name \in ModelInputs, seed \in StoreSeeds :
           PredictCall(model_name, _get_default_features(clock), 1, seed)

\* the feature builder between tracker calls
BuildFeaturesStored ==
    /\ Idle
    /\ \E historical_data \in {<<>>, <<RatePoint(1, 1054000, TRUE)>>} :
           GenerateFeatures(historical_data, NoneValue, 0)

NextStore ==
    \/ Retrain
    \/ Evaluate
    \/ GetModelPerformance
    \/ PredictStored
    \/ PredictStep
    \/ PredictReturn
    \/ BuildFeaturesStored
    \/ Return

SpecStore == Init /\ [][NextStore]_vars

----------------------------------------------------------------------------
(* Concurrent callers of the global instance: two threads in retrain_model   *)
(* for the same model, and a thread that reads through the dictionary        *)
(* get_model_performance returned. No statement of the class takes a lock;   *)
(* a thread runs one statement of retrain_model at a time.                   *)

Threads == {1, 2}

\* the threads before their first statement
StartLocals ==
    [pc |-> [t \in Threads |-> "check"],
     current_accuracy |-> [t \in Threads |-> 0],
     new_accuracy |-> [t \in Threads |-> 0],
     reader |-> "start",
     observed |-> NoResult]

\* the two retrain_model calls and the reader are started
ConcurrentCall(model_name, training_data, seeds) ==
    /\ Idle
    /\ retrain_calls + 2 <= MaxRetrains
    /\ retrain_calls' = retrain_calls + 2
    /\ op' = "concurrent_retrain"
    /\ args' = [model_name |-> model_name, training_data |-> training_data,
                seeds |-> seeds, at |-> clock, store |-> model_performance]
    /\ locals' = StartLocals
    /\ outcome' = "running"
    /\ UNCHANGED <<clock, model_performance, result, error, predictions,
                   features_out, indicator_out>>

StartConcurrent ==
    /\ Idle
    /\ \E model_name \in RetrainModels \cup UnknownModels,
          first \in TrainingInputs, second \in TrainingInputs,
          seeds \in [Threads -> StoreSeeds] :
           ConcurrentCall(model_name, <<first, second>>, seeds)

\* thread t is at statement pc of retrain_model
At(t, pc) == Running("concurrent_retrain") /\ locals.pc[t] = pc

\* if model_name not in self.models: raise ValueError
ThreadCheck(t) ==
    /\ At(t, "check")
    /\ locals' = [locals EXCEPT !.pc[t] =
                     IF args.model_name \in RetrainModels THEN "stamp" ELSE "raised"]
    /\ UNCHANGED <<clock, model_performance, retrain_calls, result, op, args,
                   outcome, error, predictions, features_out, indicator_out>>

\* self.model_performance[model_name]['last_trained'] = utcnow
ThreadStamp(t) ==
    /\ At(t, "stamp")
    /\ model_performance' = SetLastTrained(model_performance, args.model_name, clock)
    /\ locals' = [locals EXCEPT !.pc[t] = "count"]
    /\ UNCHANGED <<clock, retrain_calls, result, op, args, outcome, error,
                   predictions, features_out, indicator_out>>

\* self.model_performance[model_name]['training_samples'] = ...
ThreadCount(t) ==
    /\ At(t, "count")
    /\ model_performance' =
           SetTrainingSamples(model_performance, args.model_name, args.training_data[t])
    /\ locals' = [locals EXCEPT !.pc[t] = "read"]
    /\ UNCHANGED <<clock, retrain_calls, result, op, args, outcome, error,
                   predictions, features_out, indicator_out>>

\* current_accuracy = self.model_performance[model_name]['accuracy']
ThreadRead(t) ==
    /\ At(t, "read")
    /\ locals' = [locals EXCEPT
                     !.pc[t] = "write",
                     !.current_accuracy[t] = model_performance[args.model_name].accuracy]
    /\ UNCHANGED <<clock, model_performance, retrain_calls, result, op, args,
                   outcome, error, predictions, features_out, indicator_out>>

\* improvement, new_accuracy, and the store of round(new_accuracy, 3)
ThreadWrite(t) ==
    /\ At(t, "write")
    /\ LET new_accuracy ==
               NewAccuracy(locals.current_accuracy[t], Improvement(args.seeds[t]))
       IN  /\ model_performance' =
                  SetAccuracy(model_performance, args.model_name, new_accuracy)
           /\ locals' = [locals EXCEPT !.pc[t] = "return",
                                       !.new_accuracy[t] = new_accuracy]
    /\ UNCHANGED <<clock, retrain_calls, result, op, args, outcome, error,
                   predictions, features_out, indicator_out>>

\* return {...}
ThreadReturn(t) ==
    /\ At(t, "return")
    /\ locals' = [locals EXCEPT !.pc[t] = "done"]
    /\ UNCHANGED <<clock, model_performance, retrain_calls, result, op, args,
                   outcome, error, predictions, features_out, indicator_out>>

\* the reader calls get_model_performance: it holds self.model_performance
ReaderGet ==
    /\ Running("concurrent_retrain")
    /\ locals.reader = "start"
    /\ locals' = [locals EXCEPT !.reader = "holding"]
    /\ UNCHANGED <<clock, model_performance, retrain_calls, result, op, args,
                   outcome, error, predictions, features_out, indicator_out>>

\* the reader looks the model's record up in the dictionary it holds, which
\* is the store itself
ReaderRead ==
    /\ Running("concurrent_retrain")
    /\ locals.reader = "holding"
    /\ locals' = [locals EXCEPT
                     !.reader = "read",
                     !.observed = Get(model_performance, args.model_name, EmptyDict)]
    /\ UNCHANGED <<clock, model_performance, retrain_calls, result, op, args,
                   outcome, error, predictions, features_out, indicator_out>>

\* both calls have returned or raised and the reader has read
Join ==
    /\ Running("concurrent_retrain")
    /\ \A t \in Threads : locals.pc[t] \in {"done", "raised"}
    /\ locals.reader = "read"
    /\ IF \E t \in Threads : locals.pc[t] = "raised"
       THEN /\ outcome' = "raised"
            /\ error' = "UnknownModel"
            /\ result' = NoResult
       ELSE /\ outcome' = "returned"
            /\ error' = "none"
            /\ result' =
                   [t \in Threads |->
                       RetrainResult(args.model_name, args.training_data[t],
                                     locals.new_accuracy[t], TrainingTime(args.seeds[t]))]
    /\ locals' = NoLocals
    /\ UNCHANGED <<clock, model_performance, retrain_calls, op, args,
                   predictions, features_out, indicator_out>>

NextConcurrent ==
    \/ StartConcurrent
    \/ \E t \in Threads : ThreadCheck(t)
    \/ \E t \in Threads : ThreadStamp(t)
    \/ \E t \in Threads : ThreadCount(t)
    \/ \E t \in Threads : ThreadRead(t)
    \/ \E t \in Threads : ThreadWrite(t)
    \/ \E t \in Threads : ThreadReturn(t)
    \/ ReaderGet
    \/ ReaderRead
    \/ Join
    \/ Return

SpecConcurrent == Init /\ [][NextConcurrent]_vars

----------------------------------------------------------------------------
(* The route /forecast/generate of forecasting.py *)

AVAILABLE_MODELS == {"ensemble", "xgboost", "lstm", "random_forest"}

\* base_rates.get(pair, 1.0000), in millionths
BaseRate(pair) ==
    CASE pair = "USD/EUR" -> 1054500
      [] pair = "USD/GBP" -> 782300
      [] pair = "USD/JPY" -> 149850000
      [] pair = "EUR/GBP" -> 841200
      [] pair = "EUR/JPY" -> 142150000
      [] pair = "GBP/JPY" -> 191580000
      [] OTHER -> Unit

\* confidence_base of the model-specific adjustments, in thousandths
ConfidenceBase(model) ==
    IF model = "ensemble" THEN 850
    ELSE IF model = "xgboost" THEN 800
    ELSE IF model = "lstm" THEN 780
    ELSE 750

\* predicted_rate = current_rate + trend_factor + seasonal_factor + noise,
\* the noise the i-th draw; current_rate is the base rate in every iteration
ForecastRate(current_rate, i, seed) ==
    current_rate + 100 * i + SinDay(i) + Uniform(seed, i - 1, -2000, 2000)

\* the dictionary one iteration of generate_forecast appends
ForecastStep(model, horizon, now, i, current_rate, seed) ==
    LET predicted_rate == Fin(ForecastRate(current_rate, i, seed))
        uncertainty == Uncertainty(i, horizon)
    IN  [timestamp |-> now + i,
         predicted |-> Round4(predicted_rate),
         confidence |-> RoundDiv(ConfidenceBase(model) * (10 * horizon - 3 * (i - 1)),
                                 10 * horizon),
         lower_bound |-> Round4(FSub(predicted_rate, uncertainty)),
         upper_bound |-> Round4(FAdd(predicted_rate, uncertainty)),
         trend |-> IF FGt(predicted_rate, Fin(current_rate)) THEN "up" ELSE "down",
         volatility |-> Round4(uncertainty)]

\* the summary of the response: the change over the horizon and its sign
ForecastSummary(steps, current_rate) ==
    LET last == steps[Len(steps)].predicted.v
    IN  [predicted_change |-> last - current_rate,
         average_confidence |->
             RoundDiv(Sum([k \in 1 .. Len(steps) |-> steps[k].confidence]), Len(steps)),
         trend_direction |-> IF last > current_rate THEN "bullish" ELSE "bearish"]

\* the response of generate_forecast to a request it accepts; its model_info,
\* random figures that depend on nothing, is not represented
ForecastResponse(pair, model, horizon, now, seed) ==
    LET current_rate == BaseRate(pair)
        steps == [i \in 1 .. horizon |->
                     ForecastStep(model, horizon, now, i, current_rate, seed)]
    IN  [status |-> 200, pair |-> pair, model |-> model, horizon |-> horizon,
         predictions |-> steps, generated_at |-> now,
         summary |-> ForecastSummary(steps, current_rate)]

\* POST /forecast/generate with pair, model and horizon in the body, the
\* random source in state seed. With no step to summarise, predictions[-1]
\* raises IndexError, which the framework answers with status 500.
GenerateForecast(pair, model, horizon, seed) ==
    /\ Idle
    /\ op' = "generate_forecast"
    /\ args' = [pair |-> pair, model_name |-> model, horizon |-> horizon,
                seed |-> seed, at |-> clock]
    /\ IF model \notin AVAILABLE_MODELS
       THEN /\ outcome' = "returned"
            /\ error' = "none"
            /\ result' = [status |-> 400, error |-> "Invalid model specified"]
       ELSE IF horizon > 168
       THEN /\ outcome' = "returned"
            /\ error' = "none"
            /\ result' = [status |-> 400,
                          error |-> "Horizon cannot exceed 168 hours (1 week)"]
       ELSE IF horizon < 1
       THEN /\ outcome' = "raised"
            /\ error' = "IndexError"
            /\ result' = [status |-> 500]
       ELSE /\ outcome' = "returned"
            /\ error' = "none"
            /\ result' = ForecastResponse(pair, model, horizon, clock, seed)
    /\ UNCHANGED <<clock, model_performance, retrain_calls, locals, predictions,
                   features_out, indicator_out>>

\* the pairs of the requests: two the route knows and one it does not
PairInputs == {"USD/EUR", "USD/GBP", "XXX/YYY"}

PostForecast ==
    /\ Idle
    /\ \E pair \in PairInputs, model \in ModelInputs,
          horizon \in -1 .. MaxHorizonInput :
        \E seed \in {0, Pow3(SeedDigits) - 1} :
            GenerateForecast(pair, model, horizon, seed)

NextApi == PostForecast \/ Tick \/ Return

SpecApi == Init /\ [][NextApi]_vars

----------------------------------------------------------------------------
(* The claims *)

\* the model variants the specification registers
RegisteredVariants == {"ensemble", "xgboost", "random_forest", "lstm"}

\* the largest horizon the specification accepts
HorizonCeiling == 168

\* predict was called with a registered model and an accepted horizon
ValidPredict ==
    /\ op = "predict"
    /\ args.model_name \in RegisteredVariants
    /\ args.horizon \in 1 .. HorizonCeiling

\* C1: for every registered model and every horizon in 1..168 predict does
\* not raise and returns exactly horizon steps, the k-th of them the step
\* of hour k after the call.
C1_ExactlyHorizonSteps ==
    ValidPredict =>
        /\ outcome # "raised"
        /\ \A k \in 1 .. Len(predictions) : predictions[k].timestamp = args.at + k
        /\ outcome = "returned" => Len(predictions) = args.horizon

C1_Witness ==
    /\ ValidPredict
    /\ outcome = "returned"
    /\ args.horizon = HorizonCeiling
    /\ Len(predictions) = HorizonCeiling

\* C2: every step predict returns has lower_bound <= predicted <=
\* upper_bound, as Python compares the three rounded values, for every
\* model, horizon and feature vector.
C2_BoundsEnclosePredicted ==
    (op = "predict" /\ outcome = "returned") =>
        \A k \in 1 .. Len(predictions) :
            /\ FLe(predictions[k].lower_bound, predictions[k].predicted)
            /\ FLe(predictions[k].predicted, predictions[k].upper_bound)

\* What holds of the bounds: they enclose the predicted rate of every step
\* whose predicted rate is a number (finite or infinite).
BoundsEncloseNumbers ==
    (op = "predict" /\ outcome = "returned") =>
        \A k \in 1 .. Len(predictions) :
            predictions[k].predicted.k # "nan" =>
                /\ FLe(predictions[k].lower_bound, predictions[k].predicted)
                /\ FLe(predictions[k].predicted, predictions[k].upper_bound)

\* C3: every step of predict, for a registered model and a horizon in
\* 1..168, reports a confidence in [0.5, 1.0].
C3_ConfidenceInRange ==
    ValidPredict =>
        \A k \in 1 .. Len(predictions) :
            predictions[k].confidence >= 500 /\ predictions[k].confidence <= 1000

\* the floor acts: the last step of lstm over the longest horizon, whose
\* decayed confidence is below 0.5
C3_Witness ==
    /\ ValidPredict
    /\ outcome = "returned"
    /\ args.model_name = "lstm"
    /\ args.horizon = HorizonCeiling
    /\ ConfidenceNum("lstm", HorizonCeiling, HorizonCeiling)
           < 500 * ConfidenceDen(HorizonCeiling)
    /\ predictions[HorizonCeiling].confidence = 500

\* C4: within one predict call the reported confidence never increases
\* from a step to the next.
C4_ConfidenceNonIncreasing ==
    (op = "predict" /\ args.model_name \in RegisteredVariants) =>
        \A k \in 1 .. (Len(predictions) - 1) :
            predictions[k + 1].confidence <= predictions[k].confidence

C4_Witness ==
    /\ op = "predict"
    /\ outcome = "returned"
    /\ args.model_name = "ensemble"
    /\ Len(predictions) >= 2
    /\ predictions[Len(predictions)].confidence < predictions[1].confidence

\* C5: predict with a registered model and a horizon outside 1..168 ends by
\* raising InvalidHorizon, never by returning.
C5_InvalidHorizonRaises ==
    (/\ op = "predict"
     /\ args.model_name \in RegisteredVariants
     /\ args.horizon \notin 1 .. HorizonCeiling
     /\ outcome # "running") =>
        outcome = "raised" /\ error = "InvalidHorizon"

\* C6: predict with a model name that is not a registered variant raises
\* UnknownModel and produces no step, whatever the features and the horizon.
C6_UnknownModelRaises ==
    (op = "predict" /\ args.model_name \notin RegisteredVariants) =>
        /\ outcome = "raised"
        /\ error = "UnknownModel"
        /\ predictions = <<>>

C6_Witness ==
    /\ op = "predict"
    /\ args.model_name = "nonexistent_model"
    /\ args.horizon = MaxSmallHorizon
    /\ args.features = [sentiment_score |-> Fin(-1 * Unit)]
    /\ outcome = "raised"

\* the history of the last generate_features call is too short
ShortHistoryCall ==
    op = "generate_features" /\ Len(args.historical_data) < 20

C8_FixedKeySet ==
    op = "generate_features" =>
        /\ DOMAIN features_out = {feature_columns[k] : k \in 1 .. Len(feature_columns)}
        /\ Cardinality(DOMAIN features_out) = 20

\* the computed branch, without a volume column and without a sentiment
C8_Witness ==
    /\ op = "generate_features"
    /\ Len(args.historical_data) >= 20
    /\ ~HasVolume(args.historical_data)
    /\ ~Truthy(args.sentiment_data)
    /\ Cardinality(DOMAIN features_out) = 20

\* C9: rsi returns a value in [0, 100], and exactly 50.0 for a sequence of
\* fewer than period + 1 rates.
C9_RsiRange ==
    op = "rsi" =>
        /\ IsFinite(indicator_out)
        /\ indicator_out.v >= 0
        /\ indicator_out.v <= 100 * Unit
        /\ Len(args.prices) < args.period + 1 => indicator_out = Fin(50 * Unit)

\* a constant sequence of exactly period rates, one short of the length rsi
\* computes over
C9_Witness ==
    /\ op = "rsi"
    /\ args.period = 14
    /\ Len(args.prices) = args.period
    /\ \A k \in 1 .. Len(args.prices) : args.prices[k] = args.prices[1]
    /\ indicator_out = Fin(50 * Unit)

\* the last period rates of the last call of an indicator are all equal
ConstantWindow ==
    /\ Len(args.prices) >= args.period
    /\ \A k \in 1 .. args.period :
           FromEnd(args.prices, k) = FromEnd(args.prices, 1)

\* C10: bollinger_position returns a value in [0, 1], and exactly 0.5 for a
\* sequence of fewer than period rates and for a constant window, whose band
\* has no width.
C10_BollingerPosition ==
    op = "bollinger_position" =>
        /\ IsFinite(indicator_out)
        /\ indicator_out.v >= 0
        /\ indicator_out.v <= Unit
        /\ (Len(args.prices) < args.period \/ ConstantWindow)
               => indicator_out = Fin(500000)

\* What holds of bollinger_position: the range, and 0.5 for a sequence of
\* fewer than period rates.
BollingerRangeAndShortDefault ==
    op = "bollinger_position" =>
        /\ IsFinite(indicator_out)
        /\ indicator_out.v >= 0
        /\ indicator_out.v <= Unit
        /\ Len(args.prices) < args.period => indicator_out = Fin(500000)

----------------------------------------------------------------------------
(* The claims on the performance tracker *)

\* a tracker call on a registered variant
TrackerCall(name) ==
    op = name /\ args.model_name \in RegisteredVariants

\* C11: evaluate_model of a registered model with an empty test series
\* returns the record the store holds for that model, and the store after the
\* call equals the store before the call.
C11_EmptyEvaluationReturnsStored ==
    (TrackerCall("evaluate_model") /\ args.test_data = <<>>)
        => /\ outcome = "returned"
           /\ result = args.store[args.model_name]
           /\ model_performance = args.store

\* C11 happens: an empty evaluation of a model that was retrained before
C11_Witness ==
    /\ TrackerCall("evaluate_model")
    /\ args.test_data = <<>>
    /\ args.store[args.model_name] # InitialPerformance(0)[args.model_name]
    /\ result = model_performance[args.model_name]

\* C12: in every state reached by retrain_model, evaluate_model, predict and
\* get_model_performance calls from the initial store, the accuracy of every
\* stored record is within [0.70, 0.95].
C12_AccuracyInRange ==
    \A model_name \in DOMAIN model_performance :
        /\ model_performance[model_name].accuracy >= 700
        /\ model_performance[model_name].accuracy <= 950

\* C12 happens: a retrain whose drawn improvement would take the accuracy
\* beyond 0.95 has stored 0.95
C12_Witness ==
    /\ TrackerCall("retrain_model")
    /\ outcome = "returned"
    /\ 1000 * args.store[args.model_name].accuracy + Improvement(args.seed) > 950000
    /\ model_performance[args.model_name].accuracy = 950

\* the lower end is reached as well: a retrain has stored 0.70
C12_LowerClampReached ==
    /\ TrackerCall("retrain_model")
    /\ outcome = "returned"
    /\ 1000 * args.store[args.model_name].accuracy + Improvement(args.seed) < 700000
    /\ model_performance[args.model_name].accuracy = 700

\* C13: retrain_model with a model name that is not a registered variant
\* raises the unknown-model error and leaves every stored record as it was
\* before the call.
C13_RetrainUnknownModelRaises ==
    (op = "retrain_model" /\ args.model_name \notin RegisteredVariants)
        => /\ outcome = "raised"
           /\ error = "UnknownModel"
           /\ model_performance = args.store

\* C13 happens: the call is refused on a store earlier retrains have changed
C13_Witness ==
    /\ op = "retrain_model"
    /\ args.model_name \in UnknownModels
    /\ outcome = "raised"
    /\ args.store # InitialPerformance(0)

\* C14: evaluate_model with a model name that is not a registered variant
\* raises the unknown-model error, whatever the test series, the empty one
\* included.
C14_EvaluateUnknownModelRaises ==
    (op = "evaluate_model" /\ args.model_name \notin RegisteredVariants)
        => /\ outcome = "raised"
           /\ error = "UnknownModel"

\* what the code does for an unknown model: it raises for a test series with
\* at least one point, and returns an empty dictionary for the empty one
EvaluateUnknownModelByLength ==
    (op = "evaluate_model" /\ args.model_name \notin RegisteredVariants)
        => IF args.test_data = <<>>
           THEN outcome = "returned" /\ result = EmptyDict
           ELSE outcome = "raised" /\ error = "UnknownModel"

\* C15: retrain_model with empty training data on a registered variant is a
\* no-op: it returns a result without raising, and the stored record of the
\* model (last_trained, training_samples, accuracy) is as before the call.
C15_EmptyRetrainIsNoOp ==
    (TrackerCall("retrain_model") /\ args.training_data = <<>>)
        => /\ outcome = "returned"
           /\ model_performance[args.model_name] = args.store[args.model_name]

\* what the code does with empty training data: for the two models it built
\* it stamps last_trained, stores 50000 training samples and redraws the
\* accuracy; for the other two registered variants it raises
EmptyRetrainRetrains ==
    (TrackerCall("retrain_model") /\ args.training_data = <<>>)
        => IF args.model_name \in RetrainModels
           THEN /\ outcome = "returned"
                /\ model_performance[args.model_name].last_trained = args.at
                /\ model_performance[args.model_name].training_samples = 50000
                /\ result.training_samples = 50000
           ELSE /\ outcome = "raised"
                /\ model_performance = args.store

----------------------------------------------------------------------------
(* The claims on the documented scenario of predict *)

\* predict has returned for the ensemble, horizon 3, and a feature vector
\* whose rate_lag_1 is 1.0545
EnsembleScenario ==
    /\ op = "predict"
    /\ outcome = "returned"
    /\ args.model_name = "ensemble"
    /\ args.horizon = 3
    /\ "rate_lag_1" \in DOMAIN args.features
    /\ args.features.rate_lag_1 = Fin(1054500)

\* C16: for the ensemble, horizon 3 and rate_lag_1 = 1.0545, whatever the
\* draws, predict returns three steps whose predicted rates are all within
\* 0.01 of 1.0545, whose first confidence is 0.85, and whose later
\* confidences are each at most the one before.
C16_EnsembleScenario ==
    EnsembleScenario
        => /\ Len(predictions) = 3
           /\ \A i \in 1 .. 3 :
                /\ predictions[i].predicted.k = "fin"
                /\ Abs(predictions[i].predicted.v - 1054500) <= 10000
           /\ predictions[1].confidence = 850
           /\ \A i \in 2 .. 3 :
                predictions[i].confidence <= predictions[i - 1].confidence

\* C16 happens: every draw was the highest, and the third rate is the
\* farthest the scenario gets from 1.0545
C16_Witness ==
    /\ EnsembleScenario
    /\ args.seed = Pow3(SeedDigits) - 1
    /\ predictions[3].predicted.v - 1054500 > 9500
    /\ predictions[3].confidence < 850

----------------------------------------------------------------------------
(* The claims on the frame of the performance store *)

\* C17: the store holds one record for each registered variant and for
\* nothing else, in every state; and a step that changes a record is a step
\* of retrain_model or evaluate_model, so that predict, get_model_performance
\* and the feature builder leave every record as it is.
C17_StoreFrame ==
    /\ [](DOMAIN model_performance = RegisteredVariants)
    /\ [][model_performance' # model_performance
             => op' \in {"retrain_model", "evaluate_model"}]_vars
    /\ [][op' \in {"predict", "get_model_performance", "generate_features"}
             => model_performance' = model_performance]_vars

\* C17 happens: get_model_performance has answered with a store that
\* retrain_model had changed, and the store is still that store
C17_Witness ==
    /\ op = "get_model_performance"
    /\ outcome = "returned"
    /\ args.store # InitialPerformance(0)
    /\ result = args.store
    /\ model_performance = args.store
    /\ DOMAIN model_performance = RegisteredVariants

----------------------------------------------------------------------------
(* The claims on concurrent callers *)

\* the store after the call of thread first and then the call of thread
\* second, each running alone with the draws it had
SerialRetrains(first, second) ==
    Retrained(Retrained(args.store, args.model_name, args.training_data[first],
                        args.at, args.seeds[first]),
              args.model_name, args.training_data[second], args.at, args.seeds[second])

\* C18: when two concurrent retrain_model calls on the same model have both
\* returned, the stored record of the model is the record one of the two
\* serial orders of the calls leaves: no accuracy update is lost, and
\* last_trained, training_samples and accuracy all come from one order.
C18_ConcurrentRetrainsSerial ==
    (op = "concurrent_retrain" /\ outcome = "returned")
        => \E first \in Threads : \E second \in Threads \ {first} :
               model_performance[args.model_name]
                   = SerialRetrains(first, second)[args.model_name]

\* what the code keeps of it: last_trained is the time of the calls, and
\* training_samples is the count one of the two calls stored
ConcurrentRetrainsStampAndCount ==
    (op = "concurrent_retrain" /\ outcome = "returned")
        => /\ model_performance[args.model_name].last_trained = args.at
           /\ \E t \in Threads :
                  model_performance[args.model_name].training_samples
                      = TrainingSamples(args.training_data[t])

\* the reader has read the model's record through the dictionary
\* get_model_performance returned, the retrain_model calls on the model not
\* yet joined
ReadDuringRetrain ==
    /\ Running("concurrent_retrain")
    /\ locals.reader = "read"
    /\ args.model_name \in RetrainModels

\* C19: a reader that got the model's record from get_model_performance
\* while retrain_model runs sees a stable snapshot: the record it reads never
\* has last_trained or training_samples already updated and accuracy still
\* at the value from before the retrain.
C19_ReaderSeesStableSnapshot ==
    ReadDuringRetrain
        => LET before == args.store[args.model_name]
           IN  (\/ locals.observed.last_trained # before.last_trained
                \/ locals.observed.training_samples # before.training_samples)
                   => locals.observed.accuracy # before.accuracy

----------------------------------------------------------------------------
(* The claims on the indicators and short input *)

\* one of the four indicator functions was called
IndicatorCall == op \in {"rsi", "ema", "macd", "bollinger_position"}

\* C20: no indicator function raises; on a sequence that is empty or shorter
\* than the function needs, _calculate_rsi returns 50.0, _calculate_macd 0.0,
\* _calculate_bollinger_position 0.5, and _calculate_ema the mean of the
\* rates it was given (to the last digit kept), which for no rates at all is
\* numpy's mean of nothing, nan.
C20_IndicatorsNeverRaise ==
    /\ IndicatorCall => outcome = "returned"
    /\ (op = "rsi" /\ Len(args.prices) < args.period + 1)
           => indicator_out = Fin(50 * Unit)
    /\ (op = "macd" /\ Len(args.prices) < args.slow)
           => indicator_out = Fin(0)
    /\ (op = "bollinger_position" /\ Len(args.prices) < args.period)
           => indicator_out = Fin(500000)
    /\ (op = "ema" /\ Len(args.prices) < args.period)
           => IF Len(args.prices) = 0
              THEN indicator_out = NaN
              ELSE /\ indicator_out.k = "fin"
                   /\ 2 * Abs(indicator_out.v * Len(args.prices) - Sum(args.prices))
                          <= Len(args.prices)

\* C20 happens: _calculate_ema has answered for rates that are too few and
\* not all equal
C20_Witness ==
    /\ op = "ema"
    /\ outcome = "returned"
    /\ Len(args.prices) > 1
    /\ Len(args.prices) < args.period
    /\ args.prices[Len(args.prices)] > args.prices[1]
    /\ indicator_out.k = "fin"
    /\ indicator_out.v > args.prices[1]

\* the empty sequence is answered as well, by every indicator
C20_EmptySequenceAnswered ==
    /\ IndicatorCall
    /\ outcome = "returned"
    /\ args.prices = <<>>

----------------------------------------------------------------------------
(* The claims on the steps of predict *)

\* predict was called for a registered model with a rate_lag_1 that is not
\* finite, and the call is over
NonFiniteRateCall ==
    /\ op = "predict"
    /\ outcome \in {"returned", "raised"}
    /\ args.model_name \in RegisteredVariants
    /\ args.horizon >= 1
    /\ Get(args.features, "rate_lag_1", Fin(1054500)).k # "fin"

\* C21: predict never returns a step whose predicted rate is not finite;
\* when a step comes out not finite, as it does for a rate_lag_1 that is not
\* finite, the call raises GenerationError and hands back no steps.
C21_NonFiniteRaisesGenerationError ==
    /\ (op = "predict" /\ outcome = "returned")
           => \A k \in 1 .. Len(predictions) : predictions[k].predicted.k = "fin"
    /\ NonFiniteRateCall
           => /\ outcome = "raised"
              /\ error = "GenerationError"
              /\ predictions = <<>>

\* what the code does with a rate_lag_1 that is not finite: it returns
\* horizon steps, none of them finite
NonFiniteRateReturnsNonFiniteSteps ==
    NonFiniteRateCall
        => /\ outcome = "returned"
           /\ Len(predictions) = args.horizon
           /\ \A k \in 1 .. Len(predictions) : predictions[k].predicted.k # "fin"

\* and with a finite rate_lag_1 every step is finite
FiniteRateGivesFiniteSteps ==
    (/\ op = "predict"
     /\ Get(args.features, "rate_lag_1", Fin(1054500)).k = "fin")
        => \A k \in 1 .. Len(predictions) : predictions[k].predicted.k = "fin"

\* an iteration of the loop of predict is taken in this step
LoopIteration ==
    /\ Running("predict")
    /\ Len(predictions') = Len(predictions) + 1

\* C22: predictions compound. The loop starts from features.rate_lag_1 (the
\* documented 1.0545 when the key is missing); the rate every later
\* iteration starts from is the unrounded predicted rate of the iteration
\* before, whose rounding is the predicted field of the step before; and an
\* iteration from rate r appends predicted = round(r + trend + noise, 4)
\* with the label up exactly when r + trend + noise > r, down otherwise.
C22_PredictionsCompound ==
    /\ [](Running("predict")
            => IF predictions = <<>>
               THEN locals.current_rate = Get(args.features, "rate_lag_1", Fin(1054500))
               ELSE Round4(locals.current_rate)
                        = predictions[Len(predictions)].predicted)
    /\ [][LoopIteration
            => LET i == Len(predictions')
                   previous == locals.current_rate
                   predicted ==
                       FAdd(FAdd(previous,
                                 StepTrend(args.model_name, previous, i,
                                           args.features, args.seed)),
                            StepNoise(args.model_name, i, args.seed))
               IN  /\ predictions'[i].predicted = Round4(predicted)
                   /\ predictions'[i].trend = "up" <=> FGt(predicted, previous)
                   /\ predictions'[i].trend \in {"up", "down"}]_vars

\* C22 happens: the third step is labelled down although its rounded rate
\* is above rate_lag_1, because it is below the rate of the second step
C22_Witness ==
    /\ op = "predict"
    /\ outcome = "returned"
    /\ Len(predictions) = 3
    /\ predictions[3].predicted.k = "fin"
    /\ predictions[3].predicted.v > Get(args.features, "rate_lag_1", Fin(1054500)).v
    /\ predictions[3].predicted.v < predictions[2].predicted.v
    /\ predictions[3].trend = "down"

\* the documented base confidences, in thousandths
DocumentedBase(model_name) ==
    CASE model_name = "ensemble" -> 850
      [] model_name = "xgboost" -> 800
      [] model_name = "random_forest" -> 750
      [] model_name = "lstm" -> 700

\* max(0.5, base * (1 - (i - 1) / horizon * 0.3)) as a fraction of a
\* thousandth: DecayedNum(model_name, i, horizon) / (10 * horizon)
DecayedNum(model_name, i, horizon) ==
    Max(500 * 10 * horizon, DocumentedBase(model_name) * (10 * horizon - 3 * (i - 1)))

\* C23 as stated: for every registered model and horizon in 1..168 the
\* confidence reported at step i equals
\* max(0.5, base * (1 - (i - 1) / horizon * 0.3)).
C23_ConfidenceEqualsFormula ==
    ValidPredict =>
        \A i \in 1 .. Len(predictions) :
            predictions[i].confidence * 10 * args.horizon
                = DecayedNum(args.model_name, i, args.horizon)

\* C23: for every registered model and horizon in 1..168 the confidence
\* reported at step i is max(0.5, base * (1 - (i - 1) / horizon * 0.3))
\* rounded to three decimals; step 1 reports exactly the base, and no step
\* reports less than 70% of the base.
C23_ConfidenceIsRoundedFormula ==
    ValidPredict =>
        \A i \in 1 .. Len(predictions) :
            /\ 2 * Abs(predictions[i].confidence * 10 * args.horizon
                         - DecayedNum(args.model_name, i, args.horizon))
                   <= 10 * args.horizon
            /\ i = 1 => predictions[i].confidence = DocumentedBase(args.model_name)
            /\ 10 * predictions[i].confidence >= 7 * DocumentedBase(args.model_name)

\* C23 happens: the second of seven steps of the ensemble, 0.813571...,
\* is reported as 0.814
C23_Witness ==
    /\ ValidPredict
    /\ outcome = "returned"
    /\ args.model_name = "ensemble"
    /\ args.horizon = 7
    /\ predictions[2].confidence = 814

----------------------------------------------------------------------------
(* The claims on evaluate_model *)

\* evaluate_model has returned for a test series with at least one point
EvaluationReturned ==
    /\ TrackerCall("evaluate_model")
    /\ outcome = "returned"
    /\ Len(args.test_data) > 0

\* the rounded predicted rate and the actual rate of point j of the call
PredictedAt(j) ==
    EvaluationPrediction(args.model_name, args.test_data[j], args.at, args.seed, j)
ActualAt(j) == args.test_data[j].rate

\* the consecutive pairs whose predicted direction is the actual direction
MatchingPairs ==
    {i \in 2 .. Len(args.test_data) :
        (PredictedAt(i) > PredictedAt(i - 1)) = (ActualAt(i) > ActualAt(i - 1))}

\* directional_accuracy is the fraction of matching pairs, and test_samples
\* the length of the series
DirectionAndSamples ==
    /\ result.test_samples = Len(args.test_data)
    /\ result.directional_accuracy >= 0
    /\ result.directional_accuracy <= 1000
    /\ result.directional_accuracy
           = RoundDiv(1000 * Cardinality(MatchingPairs),
                      Max(1, Len(args.test_data) - 1))

\* the sum, over the points first .. last, of the absolute error of the
\* prediction made at the point against the actual rate shift points later
AbsoluteErrors(first, last, shift) ==
    Sum([k \in 1 .. (last - first + 1) |->
            Abs(ActualAt(first + k - 1 + shift) - PredictedAt(first + k - 1))])

\* C24: for a non-empty test series evaluate_model compares the prediction
\* made at each point with the actual rate of the point after it, so that
\* mae is the mean absolute error over those pairs; directional_accuracy is
\* the fraction, in [0, 1], of consecutive pairs whose predicted direction
\* matches the actual direction; test_samples is the length of the series.
C24_EvaluateAgainstSubsequent ==
    EvaluationReturned
        => /\ DirectionAndSamples
           /\ Len(args.test_data) > 1
                  => result.mae
                         = RoundDiv(AbsoluteErrors(1, Len(args.test_data) - 1, 1),
                                    (Len(args.test_data) - 1) * 100)

\* what the code does: each prediction is compared with the actual rate of
\* its own point; the direction and the sample count are as documented
EvaluateAgainstSamePoint ==
    EvaluationReturned
        => /\ DirectionAndSamples
           /\ Len(args.test_data) > 1
                  => result.mae
                         = RoundDiv(AbsoluteErrors(1, Len(args.test_data), 0),
                                    Len(args.test_data) * 100)

----------------------------------------------------------------------------
(* The claims on the order of the history *)

\* the feature builder was called with at least 20 points
LongHistoryCall ==
    /\ op = "generate_features"
    /\ Len(args.historical_data) >= 20

\* two other orders of the points of seq: the last first, and the points at
\* the odd places before those at the even places
OddsThenEvens(seq) ==
    [k \in 1 .. Len(seq) |->
        IF 2 * k - 1 <= Len(seq) THEN seq[2 * k - 1]
        ELSE seq[2 * (k - (Len(seq) + 1) \div 2)]]
Reorderings(seq) == {Reverse(seq), OddsThenEvens(seq)}

\* the point of seq with the latest timestamp
LatestPoint(seq) ==
    CHOOSE p \in {seq[k] : k \in 1 .. Len(seq)} :
        \A k \in 1 .. Len(seq) : seq[k].timestamp <= p.timestamp

\* C25: for a series of at least 20 points with distinct timestamps the
\* feature builder returns the same vector for every order of the points:
\* the vector of the timestamp-ascending order, whose rate_lag_1 is the rate
\* of the latest point and whose calendar fields are those of the latest
\* timestamp.
C25_OrderOfPointsIrrelevant ==
    LongHistoryCall
        => /\ \A other \in Reorderings(args.historical_data) :
                  features_out
                      = generate_features(other, args.sentiment_data, args.at,
                                          args.rounding)
           /\ features_out.rate_lag_1 = Fin(LatestPoint(args.historical_data).rate)
           /\ features_out.hour_of_day
                  = HourOf(LatestPoint(args.historical_data).timestamp)
           /\ features_out.day_of_month
                  = DayOf(LatestPoint(args.historical_data).timestamp)

\* C25 happens: the points came newest first, and rate_lag_1 is the rate of
\* the first of them, which is not the rate of the last
C25_Witness ==
    /\ LongHistoryCall
    /\ args.historical_data[1].timestamp > args.historical_data[2].timestamp
    /\ args.historical_data[1].rate
           # args.historical_data[Len(args.historical_data)].rate
    /\ features_out.rate_lag_1 = Fin(args.historical_data[1].rate)

----------------------------------------------------------------------------
(* The claims on the API layer *)

\* /forecast/generate was asked for a registered model
ForecastCall ==
    /\ op = "generate_forecast"
    /\ args.model_name \in RegisteredVariants

\* the confidence predict reports for the request at step i
EngineConfidence(i) ==
    ReportedConfidence(ConfidenceNum(args.model_name, i, args.horizon),
                       ConfidenceDen(args.horizon))

\* C26: what /forecast/generate returns is what predict defines: for every
\* registered model and every horizon in 1..168 the response carries
\* horizon steps, the confidence of step i is the confidence predict reports
\* for the model at step i, and the rates compound, step i built on the
\* predicted rate of step i - 1, so that its label is up exactly when its
\* rate is above that of step i - 1; and a horizon below 1 is answered with
\* an error, not with an empty list of predictions.
C26_ApiIsPredict ==
    ForecastCall
        => IF args.horizon < 1 THEN result.status # 200
           ELSE IF args.horizon > HorizonCeiling THEN result.status # 200
           ELSE /\ result.status = 200
                /\ Len(result.predictions) = args.horizon
                /\ \A i \in 1 .. args.horizon :
                       result.predictions[i].confidence = EngineConfidence(i)
                /\ \A i \in 2 .. args.horizon :
                       result.predictions[i].trend = "up"
                           <=> ForecastRate(BaseRate(args.pair), i, args.seed)
                                   > ForecastRate(BaseRate(args.pair), i - 1, args.seed)

\* what the route does: it answers a horizon outside 1..168 with an error;
\* its confidences are those of predict for every model but lstm; each of
\* its rates is built on the base rate of the pair, and labelled against it
ApiOnBaseRate ==
    ForecastCall
        => IF args.horizon < 1 THEN result.status = 500
           ELSE IF args.horizon > HorizonCeiling THEN result.status = 400
           ELSE /\ result.status = 200
                /\ Len(result.predictions) = args.horizon
                /\ \A i \in 1 .. args.horizon :
                       /\ args.model_name # "lstm"
                              => result.predictions[i].confidence = EngineConfidence(i)
                       /\ Abs(result.predictions[i].predicted.v
                                  - (BaseRate(args.pair) + 100 * i + SinDay(i))) <= 2050
                       /\ result.predictions[i].trend = "up"
                              <=> ForecastRate(BaseRate(args.pair), i, args.seed)
                                      > BaseRate(args.pair)

----------------------------------------------------------------------------
(* The claims on the results of retrain_model *)

\* C27: every model predict accepts and the store has a record for
\* (ensemble, xgboost, random_forest, lstm) is accepted by retrain_model as
\* well, which returns and updates the record of the model instead of
\* raising the unknown-model error.
C27_RetrainAcceptsRegistered ==
    (/\ op = "retrain_model"
     /\ args.model_name \in PredictModels
     /\ args.model_name \in DOMAIN args.store)
        => /\ outcome = "returned"
           /\ model_performance[args.model_name].last_trained = args.at
           /\ model_performance[args.model_name].training_samples
                  = TrainingSamples(args.training_data)

\* what the code does: retrain_model accepts the two models
\* _initialize_models builds and raises for every other name, ensemble and
\* lstm among them
RetrainAcceptsBuiltModels ==
    op = "retrain_model"
        => IF args.model_name \in {"random_forest", "xgboost"}
           THEN outcome = "returned"
           ELSE outcome = "raised" /\ error = "UnknownModel"
                    /\ model_performance = args.store

\* retrain_model has returned for a registered variant
RetrainReturned ==
    /\ TrackerCall("retrain_model")
    /\ outcome = "returned"

\* C28: after a retrain_model call that returned, new_accuracy and
\* training_samples of the result equal the accuracy and the
\* training_samples the store holds for the model, which is what a
\* following get_model_performance returns.
C28_ResultEqualsStored ==
    RetrainReturned
        => /\ result.new_accuracy
                  = Fin(1000 * model_performance[args.model_name].accuracy)
           /\ result.training_samples
                  = model_performance[args.model_name].training_samples

\* what the code does: the store holds the returned new_accuracy rounded to
\* three decimals, and the returned training_samples
ResultRoundsToStored ==
    RetrainReturned
        => /\ result.new_accuracy.k = "fin"
           /\ RoundDiv(result.new_accuracy.v, 1000)
                  = model_performance[args.model_name].accuracy
           /\ result.training_samples
                  = model_performance[args.model_name].training_samples

\* C29: a retrain_model call that returned has changed nothing but
\* last_trained, training_samples and accuracy of the record of its model:
\* mse, mae, directional_accuracy and status of that record, and every
\* record of every other model, are as before the call.
C29_RetrainChangesThreeFields ==
    RetrainReturned
        => /\ DOMAIN model_performance = DOMAIN args.store
           /\ \A name \in DOMAIN args.store \ {args.model_name} :
                  model_performance[name] = args.store[name]
           /\ model_performance[args.model_name]
                  = [args.store[args.model_name] EXCEPT
                        !.last_trained = model_performance[args.model_name].last_trained,
                        !.training_samples =
                            model_performance[args.model_name].training_samples,
                        !.accuracy = model_performance[args.model_name].accuracy]

\* C29 happens: a retrain has changed all three fields of its record
C29_Witness ==
    /\ RetrainReturned
    /\ model_performance[args.model_name].last_trained
           # args.store[args.model_name].last_trained
    /\ model_performance[args.model_name].training_samples
           # args.store[args.model_name].training_samples
    /\ model_performance[args.model_name].accuracy
           # args.store[args.model_name].accuracy
    /\ model_performance[args.model_name].mse = args.store[args.model_name].mse

----------------------------------------------------------------------------
(* The claims on what an evaluation depends on *)

\* series as long as the one of the call, with other rates and timestamps
OtherSeries ==
    {[j \in 1 .. Len(args.test_data) |-> [timestamp |-> 500 + j, rate |-> rate]] :
        rate \in {1054500, 1060000}}

\* the horizon-1 forecast of predict from the default feature vector, with
\* the draws of the j-th point of the call
DefaultForecast(j) ==
    LET drawn == AdvanceSeed(args.seed, (j - 1) * DrawsPerStep(args.model_name))
    IN  Round4(PredictedRate(args.model_name, _get_default_features(args.at),
                             drawn, 1, Fin(1054500))).v

\* C30: in evaluate_model with a non-empty test series the prediction of
\* every point is the horizon-1 forecast from the default feature vector,
\* with rate_lag_1 = 1.0545: for the same draws it is the same whatever the
\* rates and the timestamps of the series, and so is its direction from one
\* point to the next; and the call leaves the performance store as it was.
C30_EvaluationIgnoresSeries ==
    EvaluationReturned
        => /\ \A j \in 1 .. Len(args.test_data) :
                  LET predicted == PredictedAt(j)
                  IN  /\ predicted = DefaultForecast(j)
                      /\ \A other \in OtherSeries :
                             EvaluationPrediction(args.model_name, other[j], args.at,
                                                  args.seed, j) = predicted
           /\ model_performance = args.store

\* C30 happens: the second prediction is above the first although the
\* second actual rate is below the first
C30_Witness ==
    /\ EvaluationReturned
    /\ Len(args.test_data) = 2
    /\ ActualAt(2) < ActualAt(1)
    /\ PredictedAt(2) > PredictedAt(1)
    /\ result.directional_accuracy = 0

=============================================================================
